---- MODULE Spec2Model ----
\* Verification model of the kos-kbot demo choreographies: the bounded-acceleration
\* velocity-profile executor move_to_target, the instantaneous hand command
\* move_hands, and the composite moves (asyncio.gather) of boxing_stance and
\* wave_sequence (src/demos/boxing.py, src/demos/multiple_moves.py); and of the
\* motor scripts torque.py, sin_test.py and auto_zero.py.
EXTENDS Integers, Sequences, FiniteSets, TLC

\* ------------------------------------------------------------------ numbers
\* Python floats are modelled as exact rationals <<n, d>> with d > 0 in lowest
\* terms; only the square root rounds (down, to a multiple of 1/SqrtPrec).

SqrtPrec == 1000

Abs(n) == IF n < 0 THEN -n ELSE n

RECURSIVE GCD(_, _)
GCD(a, b) == IF b = 0 THEN a ELSE GCD(b, a % b)

Rat(n, d) ==
    LET g == GCD(Abs(n), d) IN IF g = 0 THEN <<0, 1>> ELSE <<n \div g, d \div g>>

R(n) == <<n, 1>>

RAdd(x, y) ==
    LET g == GCD(x[2], y[2])
    IN Rat(x[1] * (y[2] \div g) + y[1] * (x[2] \div g), (x[2] \div g) * y[2])

RNeg(x) == <<-x[1], x[2]>>

RSub(x, y) == RAdd(x, RNeg(y))

RMul(x, y) ==
    LET g1 == GCD(Abs(x[1]), y[2])
        g2 == GCD(Abs(y[1]), x[2])
        h1 == IF g1 = 0 THEN 1 ELSE g1
        h2 == IF g2 = 0 THEN 1 ELSE g2
    IN Rat((x[1] \div h1) * (y[1] \div h2), (x[2] \div h2) * (y[2] \div h1))

\* x / y for y # 0
RDiv(x, y) ==
    IF y[1] > 0 THEN RMul(x, <<y[2], y[1]>>) ELSE RMul(x, <<-y[2], -y[1]>>)

RLt(x, y) == RSub(x, y)[1] < 0

RLe(x, y) == RSub(x, y)[1] <= 0

RMin(x, y) == IF RLe(x, y) THEN x ELSE y

RMax(x, y) == IF RLe(x, y) THEN y ELSE x

RAbs(x) == <<Abs(x[1]), x[2]>>

\* int(x) for x >= 0: truncation
RInt(x) == x[1] \div x[2]

RECURSIVE ISqrtSearch(_, _, _, _)
\* largest k in lo..hi with k * k * den <= num (lo satisfies it)
ISqrtSearch(num, den, lo, hi) ==
    IF lo >= hi THEN lo
    ELSE LET mid == (lo + hi + 1) \div 2
         IN IF mid * mid * den <= num
            THEN ISqrtSearch(num, den, mid, hi)
            ELSE ISqrtSearch(num, den, lo, mid - 1)

\* x ** 0.5 for x >= 0, rounded down to a multiple of 1/SqrtPrec
RSqrt(x) ==
    LET num == x[1] * SqrtPrec * SqrtPrec
        hi  == SqrtPrec * (1 + (x[1] \div x[2]))
    IN Rat(ISqrtSearch(num, x[2], 0, hi), SqrtPrec)

\* ------------------------------------------------------- profile (pure part)
\* lim is the record [V_MAX, ACCEL, dt] of the motion parameters a script passes
\* to move_to_target; cur is the sampled position, cv the sampled velocity.

displacement(cur, target) == RSub(target, cur)

distance(cur, target) == RAbs(displacement(cur, target))

\* direction = 1 if displacement > 0 else -1
direction(cur, target) == IF displacement(cur, target)[1] > 0 THEN R(1) ELSE R(-1)

t_accel(lim) == RDiv(lim.V_MAX, lim.ACCEL)

\* mutant: the factor 0.5 is dropped
DAccelNoHalf(lim, ta) == RMul(lim.ACCEL, RMul(ta, ta))

\* d_accel = 0.5 * acceleration * t_accel**2
d_accel(lim, ta) == RMul(RMul(<<1, 2>>, lim.ACCEL), RMul(ta, ta))

\* the branch `if distance >= 2 * d_accel`
IsTrapezoidal(dist, da) == RLe(RMul(R(2), da), dist)

d_flat(dist, da) == RSub(dist, RMul(R(2), da))

t_flat(df, lim) == RDiv(df, lim.V_MAX)

t_peak(dist, lim) == RSqrt(RDiv(dist, lim.ACCEL))

peak_velocity(tp, lim) == RMul(lim.ACCEL, tp)

\* mutant: the constant-velocity time is left out of the total
TrapezoidalTimeNoFlat(ta, tf) == RMul(R(2), ta)

TrapezoidalTime(ta, tf) == RAdd(RMul(R(2), ta), tf)

\* mutant: the deceleration half is forgotten
TriangularTimeHalf(tp) == tp

TriangularTime(tp) == RMul(R(2), tp)

\* mutant: the step count is rounded up
StepsRoundUp(tot, lim) == RInt(RDiv(tot, lim.dt)) + 1

\* steps = int(total_time / dt)
steps(tot, lim) == RInt(RDiv(tot, lim.dt))

\* the locals move_to_target computes once from the sample, before the loop;
\* a branch leaves the other branch's locals unassigned (0 here)
Profile(cur, target, lim) ==
    LET dist == distance(cur, target)
        ta   == t_accel(lim)
        da   == d_accel(lim, ta)
        trap == IsTrapezoidal(dist, da)
        df   == IF trap THEN d_flat(dist, da) ELSE R(0)
        tf   == IF trap THEN t_flat(df, lim) ELSE R(0)
        tp   == IF trap THEN R(0) ELSE t_peak(dist, lim)
        pv   == IF trap THEN R(0) ELSE peak_velocity(tp, lim)
        tot  == IF trap THEN TrapezoidalTime(ta, tf) ELSE TriangularTime(tp)
    IN [distance |-> dist, direction |-> direction(cur, target),
        t_accel |-> ta, d_accel |-> da, trapezoidal |-> trap,
        d_flat |-> df, t_flat |-> tf, t_peak |-> tp, peak_velocity |-> pv,
        total_time |-> tot, steps |-> steps(tot, lim)]

NoProfile == Profile(R(0), R(0), [V_MAX |-> R(1), ACCEL |-> R(1), dt |-> R(1)])

\* get_target_velocity of the trapezoidal branch
TrapezoidalVelocity(tt, p, cv, lim) ==
    IF RLt(tt, p.t_accel)
    THEN RMul(p.direction, RMin(lim.V_MAX, RAdd(cv, RMul(lim.ACCEL, tt))))
    ELSE IF RLt(tt, RAdd(p.t_accel, p.t_flat))
    THEN RMul(p.direction, lim.V_MAX)
    ELSE RMul(p.direction,
              RMax(R(0), RSub(lim.V_MAX,
                              RMul(lim.ACCEL, RSub(RSub(tt, p.t_accel), p.t_flat)))))

\* get_target_velocity of the triangular branch
TriangularVelocity(tt, p, cv, lim) ==
    IF RLt(tt, p.t_peak)
    THEN RMul(p.direction, RMin(p.peak_velocity, RAdd(cv, RMul(lim.ACCEL, tt))))
    ELSE RMul(p.direction,
              RMax(R(0), RSub(p.peak_velocity, RMul(lim.ACCEL, RSub(tt, p.t_peak)))))

get_target_velocity(tt, p, cv, lim) ==
    IF p.trapezoidal
    THEN TrapezoidalVelocity(tt, p, cv, lim)
    ELSE TriangularVelocity(tt, p, cv, lim)

\* the branch of get_target_velocity that answers profile time tt
phase(tt, p) ==
    IF p.trapezoidal
    THEN IF RLt(tt, p.t_accel) THEN "Accelerating"
         ELSE IF RLt(tt, RAdd(p.t_accel, p.t_flat)) THEN "Cruising"
         ELSE "Decelerating"
    ELSE IF RLt(tt, p.t_peak) THEN "Accelerating"
         ELSE "Decelerating"

\* ------------------------------------------------------------------- bounds

\* sampled positions and targets of the single-coroutine runs: multiples of
\* AngleStep degrees up to MaxAngle steps either side of zero
AngleStep == 18

MaxAngle == 2

\* sampled velocities: multiples of VelStep deg/s up to MaxVel steps either side
VelStep == 45

MaxVel == 2

Angles == {R(AngleStep * n) : n \in -MaxAngle..MaxAngle}

Velocities == {R(VelStep * n) : n \in -MaxVel..MaxVel}

\* current_angle arguments a caller passes in the single-coroutine runs
CallerAngles == {R(0), R(AngleStep)}

\* control rate (ticks per second) of the bounded runs; dt = 1 / TickRate
TickRate == 3

\* motion parameters of boxing_stance / wave_sequence (V_MAX, ACCEL) at the
\* bounded control rate, and of simple_arm.wave_sequence
BoxingLimits == [V_MAX |-> R(60), ACCEL |-> R(100), dt |-> Rat(1, TickRate)]

SimpleArmLimits == [V_MAX |-> R(70), ACCEL |-> R(110), dt |-> Rat(1, TickRate)]

\* the scripts' own control period dt = 1/50.0
ScriptLimits == [V_MAX |-> R(60), ACCEL |-> R(100), dt |-> Rat(1, 50)]

TrajLimits == {BoxingLimits, SimpleArmLimits, ScriptLimits}

\* times a remote call may take in the single-coroutine runs: none, half a
\* period, one period, one period and a half
Latencies(dt) == {R(0), RMul(Rat(1, 2), dt), dt, RMul(Rat(3, 2), dt)}

\* the choreographies: every remote call of boxing_stance returns at once, every
\* remote call of wave_sequence takes one period
ScriptLatency(sc, dt) == IF sc = "boxing" THEN {R(0)} ELSE {dt}

\* the single-coroutine runs: calls that all take one period at the bounded
\* rate of simple_arm; calls of any of the times above at the bounded rate of
\* boxing_stance when the caller passes current_angle 0.0, as the scripts do in
\* their first moves; calls that return at once otherwise
SingleLatency(l, angle) ==
    IF l = SimpleArmLimits THEN {l.dt}
    ELSE IF l = BoxingLimits /\ angle = R(0) THEN Latencies(l.dt)
    ELSE {R(0)}

\* ------------------------------------------------------------------- state

VARIABLES
    script,            \* the program that runs: "boxing", "wave" or "single"
    lim,               \* V_MAX, ACCEL, dt of the script
    task,              \* the coroutines the script hands to asyncio.gather / awaits
    main,              \* position of the script's main coroutine
    gather,            \* number of the composite move in progress
    cfg_i,             \* index of the main configure loop
    outcome,           \* how the program ended
    torque,            \* last accepted torque_enabled of each actuator
    commanded,         \* last position commanded to each actuator
    faults,            \* remote calls that raised so far
    pc,                \* position of each coroutine
    response,          \* the state sample each move_to_target got
    profile,           \* the locals each move_to_target derived from its sample
    current_angle,     \* local current_angle
    t,                 \* local t
    i,                 \* iterations of the tick loop started
    target_velocity,   \* local target_velocity
    h_i,               \* index of move_hands' configure loop
    cmds,              \* command_actuators calls issued by each coroutine
    latency,           \* the times a remote call of this run may take
    clock,             \* time.perf_counter() of each coroutine, from its start
    next_tick,         \* local next_tick
    anchor,            \* the value next_tick was initialised with
    late,              \* a tick command of the coroutine returned after its deadline
    queries,           \* get_actuators_state calls issued by each coroutine
    returned,          \* command_actuators calls of each coroutine that returned
    args,              \* command-line arguments of a motor script
    attempted,         \* configure / zero calls a motor script issued, with their results
    successful,        \* local successful of torque.test_client
    failed,            \* local failed of torque.test_client
    printed,           \* messages a motor script printed
    elapsed            \* time.time() - start_time of sin_test, in passes of its loop

vars == <<script, lim, task, main, gather, cfg_i, outcome, torque, commanded, faults,
          pc, response,
          profile, current_angle, t, i, target_velocity, h_i, cmds,
          latency, clock, next_tick, anchor, late, queries, returned,
          args, attempted, successful, failed, printed, elapsed>>

Tasks == DOMAIN task

NoResponse == [position |-> R(0), velocity |-> R(0), valid |-> FALSE]

\* the demo scripts take no argument the model reads
NoArgs == [enable_torque |-> FALSE, duration |-> 0]

\* ----------------------------------------------------- the scripts' constants

\* the arm actuators the bounded runs keep, and the number of ids they keep
\* of each hand list
ModelledArm == {21, 22}

NumHand == 2

\* remote calls that may raise in one run
MaxFaults == 1

Suffix(seq, n) == SubSeq(seq, IF n < Len(seq) THEN Len(seq) - n + 1 ELSE 1, Len(seq))

Range(seq) == {seq[n] : n \in DOMAIN seq}

boxing_right_hand_ids == <<51, 52, 53, 54, 55>>

boxing_left_hand_ids == <<56, 57, 58, 59, 60>>

wave_left_hand_ids == <<51, 52, 53, 54, 55, 56>>

boxing_arm_ids == <<21, 22, 23, 24, 25>> \o <<11, 12, 13, 14, 15>>

wave_arm_ids == <<21, 22, 23, 24, 25>>

\* the actuators the main configure loop of a script walks, bounded
arm_ids(sc) ==
    IF sc = "boxing" THEN SelectSeq(boxing_arm_ids, LAMBDA id : id \in ModelledArm)
    ELSE IF sc = "wave" THEN SelectSeq(wave_arm_ids, LAMBDA id : id \in ModelledArm)
    ELSE <<>>

\* move_to_target(kos, angle, target, ACCEL, V_MAX, dt, id) handed to gather g
Joint(id, angle, target, g) ==
    [kind |-> "joint", ids |-> <<id>>, current_angle |-> R(angle),
     arg |-> R(target), gather |-> g]

Hands(hand_ids, position, g) ==
    [kind |-> "hands", ids |-> Suffix(hand_ids, NumHand), arg |-> R(position), gather |-> g]

boxing_stance_moves ==
    << Joint(21, 0, -40, 1), Joint(22, 0, 5, 1), Joint(23, 0, -10, 1), Joint(24, 0, 90, 1),
       Joint(25, 0, 0, 1),
       Joint(11, 0, 30, 1), Joint(12, 0, -5, 1), Joint(13, 0, 10, 1), Joint(14, 0, -100, 1),
       Joint(15, 0, 0, 1),
       Hands(boxing_right_hand_ids, 0, 1), Hands(boxing_left_hand_ids, 0, 1),
       Joint(21, -40, 0, 2), Joint(22, 5, 0, 2), Joint(23, -10, 0, 2), Joint(24, 90, 0, 2),
       Joint(25, 0, 0, 2),
       Joint(11, -30, 0, 2), Joint(12, -5, 0, 2), Joint(13, 10, 0, 2), Joint(14, -100, 0, 2),
       Joint(15, 0, 0, 2),
       Hands(boxing_right_hand_ids, 1, 2), Hands(boxing_left_hand_ids, 1, 2) >>

wave_sequence_moves ==
    << Hands(wave_left_hand_ids, 1, 1), Hands(<<55>>, 0, 1),
       Joint(25, 0, -80, 1), Joint(22, 0, -80, 1), Joint(21, 0, -60, 1), Joint(23, 0, -15, 1),
       Joint(24, 0, 140, 1),
       Joint(24, 140, 0, 2), Joint(23, -15, 0, 2), Hands(wave_left_hand_ids, 0, 2),
       Joint(21, -60, 0, 2), Joint(22, -80, 0, 2), Joint(25, -80, 0, 2) >>

\* the coroutines of a script, keeping the joints of the bounded arm list
Moves(sc) ==
    LET all == IF sc = "boxing" THEN boxing_stance_moves ELSE wave_sequence_moves
    IN SelectSeq(all, LAMBDA m : m.kind = "hands" \/ m.ids[1] \in Range(arm_ids(sc)))

LastGather(sc) == IF sc = "single" THEN 1 ELSE 2

\* LEG_MOTORS.values() of sin_test.py
LEG_MOTORS == <<31, 32, 33, 34, 35, 41, 42, 43, 44, 45>>

\* actuator_ids of torque.py
actuator_ids ==
    <<21, 22, 23, 24, 25, 11, 12, 13, 14, 15, 31, 32, 33, 34, 35, 41, 42, 43, 44, 45>>

\* the motor_id of each entry of MOTORS of auto_zero.py
MOTORS == <<12, 13, 14, 41, 43, 44, 45, 31, 32, 33, 34, 35>>

Actuators ==
    Range(boxing_arm_ids) \cup Range(boxing_right_hand_ids)
        \cup Range(boxing_left_hand_ids) \cup Range(LEG_MOTORS) \cup {0}

\* states a query may return during the composite moves: the actuator stands
\* at rest where it was last commanded
RobotStates(id) == {[position |-> commanded[id], velocity |-> R(0), valid |-> TRUE]}

\* states a query may return to a coroutine run alone
SingleStates ==
    {[position |-> a, velocity |-> v, valid |-> TRUE] : a \in Angles, v \in Velocities}

States(id) == IF script = "single" THEN SingleStates ELSE RobotStates(id)

\* ------------------------------------------------------------ move_to_target

conf == <<script, lim, task, latency>>

\* what only the motor scripts use
tools == <<args, attempted, successful, failed, printed, elapsed>>

sched == <<clock, next_tick, anchor, late>>

calls == <<queries, returned>>

mainv == <<main, gather, cfg_i, outcome>>

\* mutant: the velocity is sent signed
TickCommandSigned(id, angle, v) ==
    [actuator_id |-> id, position |-> angle, velocity |-> v]

TickCommand(id, angle, v) ==
    [actuator_id |-> id, position |-> angle, velocity |-> RAbs(v)]

\* mutant: the final command repeats the integrated position
FinalCommandAtCurrent(id, target, angle) ==
    [actuator_id |-> id, position |-> angle, velocity |-> R(0)]

FinalCommand(id, target, angle) ==
    [actuator_id |-> id, position |-> target, velocity |-> R(0)]

\* the coroutine belongs to the composite move main is awaiting
Live(k) ==
    /\ main = "gather"
    /\ task[k].gather = gather

\* mutant: the coroutines of a composite move share one profile time, that of
\* the first joint handed to the gather
LoopHeadSharedTime(k, p, cv, angle, tt, n) ==
    LET first == CHOOSE j \in Tasks :
                     /\ task[j].kind = "joint" /\ task[j].gather = task[k].gather
                     /\ \A m \in Tasks :
                           (task[m].kind = "joint" /\ task[m].gather = task[k].gather)
                               => j <= m
        st == IF first = k THEN tt ELSE t[first]
    IN IF n < p.steps
       THEN LET v  == get_target_velocity(st, p, cv, lim)
                a2 == RAdd(angle, RMul(v, lim.dt))
                c  == TickCommand(task[k].ids[1], a2, v)
            IN /\ target_velocity' = [target_velocity EXCEPT ![k] = v]
               /\ current_angle' = [current_angle EXCEPT ![k] = a2]
               /\ cmds' = [cmds EXCEPT ![k] = Append(@, <<c>>)]
               /\ commanded' = [commanded EXCEPT ![c.actuator_id] = c.position]
               /\ i' = [i EXCEPT ![k] = n + 1]
               /\ t' = [t EXCEPT ![k] = tt]
               /\ pc' = [pc EXCEPT ![k] = "wait_cmd"]
       ELSE LET c == FinalCommand(task[k].ids[1], task[k].arg, angle)
            IN /\ cmds' = [cmds EXCEPT ![k] = Append(@, <<c>>)]
               /\ commanded' = [commanded EXCEPT ![c.actuator_id] = c.position]
               /\ current_angle' = [current_angle EXCEPT ![k] = angle]
               /\ i' = [i EXCEPT ![k] = n]
               /\ t' = [t EXCEPT ![k] = tt]
               /\ pc' = [pc EXCEPT ![k] = "wait_final"]
               /\ UNCHANGED target_velocity

\* from the head of `for _ in range(steps)` up to the next await, with
\* current_angle = angle, t = tt and n iterations done
LoopHead(k, p, cv, angle, tt, n) ==
    IF n < p.steps
    THEN LET v  == get_target_velocity(tt, p, cv, lim)
             a2 == RAdd(angle, RMul(v, lim.dt))
             c  == TickCommand(task[k].ids[1], a2, v)
         IN /\ target_velocity' = [target_velocity EXCEPT ![k] = v]
            /\ current_angle' = [current_angle EXCEPT ![k] = a2]
            /\ cmds' = [cmds EXCEPT ![k] = Append(@, <<c>>)]
            /\ commanded' = [commanded EXCEPT ![c.actuator_id] = c.position]
            /\ i' = [i EXCEPT ![k] = n + 1]
            /\ t' = [t EXCEPT ![k] = tt]
            /\ pc' = [pc EXCEPT ![k] = "wait_cmd"]
    ELSE LET c == FinalCommand(task[k].ids[1], task[k].arg, angle)
         IN /\ cmds' = [cmds EXCEPT ![k] = Append(@, <<c>>)]
            /\ commanded' = [commanded EXCEPT ![c.actuator_id] = c.position]
            /\ current_angle' = [current_angle EXCEPT ![k] = angle]
            /\ i' = [i EXCEPT ![k] = n]
            /\ t' = [t EXCEPT ![k] = tt]
            /\ pc' = [pc EXCEPT ![k] = "wait_final"]
            /\ UNCHANGED target_velocity

\* the coroutine starts: await kos.actuator.get_actuators_state([actuator_id])
QueryState(k) ==
    /\ Live(k)
    /\ task[k].kind = "joint"
    /\ pc[k] = "new"
    /\ pc' = [pc EXCEPT ![k] = "wait_state"]
    /\ UNCHANGED <<conf, tools, sched, returned, mainv, torque, commanded, faults, response,
                   profile,
                   current_angle, t, i, target_velocity, h_i, cmds>>
    /\ queries' = [queries EXCEPT ![k] = @ + 1]

\* mutant: the sample does not replace the caller's current_angle
StateReturnKeepsArgument(k) ==
    /\ Live(k)
    /\ pc[k] = "wait_state"
    /\ \E resp \in States(task[k].ids[1]) :
          LET p == Profile(current_angle[k], task[k].arg, lim)
          IN /\ response' = [response EXCEPT ![k] = resp]
             /\ profile' = [profile EXCEPT ![k] = p]
             /\ LoopHead(k, p, resp.velocity, current_angle[k], R(0), 0)
    /\ UNCHANGED <<conf, tools, late, calls, mainv, torque, faults, h_i>>
    /\ \E l \in latency :
          LET now == RAdd(clock[k], l)
          IN /\ clock' = [clock EXCEPT ![k] = now]
             /\ next_tick' = [next_tick EXCEPT ![k] = now]
             /\ anchor' = [anchor EXCEPT ![k] = now]

\* the query returns; the profile is solved and the loop runs to its first await
StateReturn(k) ==
    /\ Live(k)
    /\ pc[k] = "wait_state"
    /\ \E resp \in States(task[k].ids[1]) :
          LET p == Profile(resp.position, task[k].arg, lim)
          IN /\ response' = [response EXCEPT ![k] = resp]
             /\ profile' = [profile EXCEPT ![k] = p]
             /\ LoopHead(k, p, resp.velocity, resp.position, R(0), 0)
    /\ UNCHANGED <<conf, tools, late, calls, mainv, torque, faults, h_i>>
    /\ \E l \in latency :
          LET now == RAdd(clock[k], l)
          IN /\ clock' = [clock EXCEPT ![k] = now]
             /\ next_tick' = [next_tick EXCEPT ![k] = now]
             /\ anchor' = [anchor EXCEPT ![k] = now]

\* mutant: the profile time is not advanced before the sleep
CommandReturnSleepKeepsTime(k) ==
    /\ Live(k)
    /\ pc[k] = "wait_cmd"
    /\ pc' = [pc EXCEPT ![k] = "sleep"]
    /\ UNCHANGED <<conf, tools, anchor, late, queries, mainv, torque, commanded, faults, response,
                   profile, current_angle, t, i, target_velocity, h_i, cmds>>
    /\ returned' = [returned EXCEPT ![k] = @ + 1]
    /\ \E l \in latency :
          LET now == RAdd(clock[k], l)
              nt  == RAdd(next_tick[k], lim.dt)
              sleep_time == RSub(nt, now)
          IN /\ RLt(R(0), sleep_time)
             /\ clock' = [clock EXCEPT ![k] = now]
             /\ next_tick' = [next_tick EXCEPT ![k] = nt]

\* a tick's command returns before its deadline: t += dt, next_tick += dt,
\* sleep_time > 0, then asyncio.sleep
CommandReturnSleep(k) ==
    /\ Live(k)
    /\ pc[k] = "wait_cmd"
    /\ t' = [t EXCEPT ![k] = RAdd(@, lim.dt)]
    /\ pc' = [pc EXCEPT ![k] = "sleep"]
    /\ UNCHANGED <<conf, tools, anchor, late, queries, mainv, torque, commanded, faults, response,
                   profile,
                   current_angle, i, target_velocity, h_i, cmds>>
    /\ returned' = [returned EXCEPT ![k] = @ + 1]
    /\ \E l \in latency :
          LET now == RAdd(clock[k], l)
              nt  == RAdd(next_tick[k], lim.dt)
              sleep_time == RSub(nt, now)
          IN /\ RLt(R(0), sleep_time)
             /\ clock' = [clock EXCEPT ![k] = now]
             /\ next_tick' = [next_tick EXCEPT ![k] = nt]

\* mutant: after an overrun the deadline restarts from the time of the return
CommandReturnOverrunRestarts(k) ==
    /\ Live(k)
    /\ pc[k] = "wait_cmd"
    /\ \E l \in latency :
          LET now == RAdd(clock[k], l)
              nt  == RAdd(next_tick[k], lim.dt)
              sleep_time == RSub(nt, now)
          IN /\ ~RLt(R(0), sleep_time)
             /\ clock' = [clock EXCEPT ![k] = now]
             /\ next_tick' = [next_tick EXCEPT ![k] = now]
             /\ late' = [late EXCEPT ![k] = @ \/ RLt(sleep_time, R(0))]
    /\ returned' = [returned EXCEPT ![k] = @ + 1]
    /\ LoopHead(k, profile[k], response[k].velocity, current_angle[k],
                RAdd(t[k], lim.dt), i[k])
    /\ UNCHANGED <<conf, tools, anchor, queries, mainv, torque, faults, response, profile,
                   h_i>>

\* a tick's command returns at or after its deadline: t += dt, next_tick += dt,
\* sleep_time <= 0, no sleep, the loop goes on
CommandReturnOverrun(k) ==
    /\ Live(k)
    /\ pc[k] = "wait_cmd"
    /\ \E l \in latency :
          LET now == RAdd(clock[k], l)
              nt  == RAdd(next_tick[k], lim.dt)
              sleep_time == RSub(nt, now)
          IN /\ ~RLt(R(0), sleep_time)
             /\ clock' = [clock EXCEPT ![k] = now]
             /\ next_tick' = [next_tick EXCEPT ![k] = nt]
             /\ late' = [late EXCEPT ![k] = @ \/ RLt(sleep_time, R(0))]
    /\ returned' = [returned EXCEPT ![k] = @ + 1]
    /\ LoopHead(k, profile[k], response[k].velocity, current_angle[k],
                RAdd(t[k], lim.dt), i[k])
    /\ UNCHANGED <<conf, tools, anchor, queries, mainv, torque, faults, response, profile,
                   h_i>>

\* mutant: the loop goes on without awaiting the command call
WakeBeforeReturn(k) ==
    /\ Live(k)
    /\ pc[k] \in {"sleep", "wait_cmd"}
    /\ LoopHead(k, profile[k], response[k].velocity, current_angle[k], t[k], i[k])
    /\ UNCHANGED <<conf, tools, next_tick, anchor, late, calls, mainv, torque, faults, response,
                   profile, h_i>>
    /\ clock' = [clock EXCEPT ![k] = next_tick[k]]

\* mutant: asyncio.sleep returns at once
WakeAtOnce(k) ==
    /\ Live(k)
    /\ pc[k] = "sleep"
    /\ LoopHead(k, profile[k], response[k].velocity, current_angle[k], t[k], i[k])
    /\ UNCHANGED <<conf, tools, sched, calls, mainv, torque, faults, response, profile, h_i>>

\* asyncio.sleep returns at the deadline
Wake(k) ==
    /\ Live(k)
    /\ pc[k] = "sleep"
    /\ LoopHead(k, profile[k], response[k].velocity, current_angle[k], t[k], i[k])
    /\ UNCHANGED <<conf, tools, next_tick, anchor, late, calls, mainv, torque, faults, response, profile, h_i>>
    /\ clock' = [clock EXCEPT ![k] = next_tick[k]]

\* mutant: after the final command the coroutine goes back to sleep in the loop
FinalReturnRestarts(k) ==
    /\ Live(k)
    /\ pc[k] = "wait_final"
    /\ pc' = [pc EXCEPT ![k] = "sleep"]
    /\ UNCHANGED <<conf, tools, next_tick, anchor, late, queries, mainv, torque, commanded,
                   faults, response, profile, current_angle, t, i, target_velocity,
                   h_i, cmds>>
    /\ returned' = [returned EXCEPT ![k] = @ + 1]
    /\ \E l \in latency : clock' = [clock EXCEPT ![k] = RAdd(@, l)]

\* the final command returns: return target
FinalReturn(k) ==
    /\ Live(k)
    /\ pc[k] = "wait_final"
    /\ pc' = [pc EXCEPT ![k] = "done"]
    /\ UNCHANGED <<conf, tools, next_tick, anchor, late, queries, mainv, torque, commanded, faults, response, profile,
                   current_angle, t, i, target_velocity, h_i, cmds>>
    /\ returned' = [returned EXCEPT ![k] = @ + 1]
    /\ \E l \in latency : clock' = [clock EXCEPT ![k] = RAdd(@, l)]

\* mutant: the failure of the state query is swallowed and the coroutine returns
StateFailSwallowed(k) ==
    /\ Live(k)
    /\ faults < MaxFaults
    /\ pc[k] = "wait_state"
    /\ pc' = [pc EXCEPT ![k] = "done"]
    /\ faults' = faults + 1
    /\ UNCHANGED <<conf, tools, sched, calls, mainv, torque, commanded, response, profile,
                   current_angle, t, i, target_velocity, h_i, cmds>>

\* the state query raises, or returns no state and states[0] raises
StateFail(k) ==
    /\ Live(k)
    /\ faults < MaxFaults
    /\ pc[k] = "wait_state"
    /\ pc' = [pc EXCEPT ![k] = "failed"]
    /\ faults' = faults + 1
    /\ UNCHANGED <<conf, tools, sched, calls, mainv, torque, commanded, response, profile,
                   current_angle, t, i, target_velocity, h_i, cmds>>

\* mutant: the failing coroutine still sends its final target command
CommandFailSendsFinal(k) ==
    /\ Live(k)
    /\ faults < MaxFaults
    /\ pc[k] \in {"wait_cmd", "wait_final"}
    /\ pc' = [pc EXCEPT ![k] = "failed"]
    /\ faults' = faults + 1
    /\ cmds' = [cmds EXCEPT ![k] =
                   Append(@, <<FinalCommand(task[k].ids[1], task[k].arg,
                                            current_angle[k])>>)]
    /\ UNCHANGED <<conf, tools, sched, calls, mainv, torque, commanded, response, profile,
                   current_angle, t, i, target_velocity, h_i>>

\* a command call of move_to_target raises
CommandFail(k) ==
    /\ Live(k)
    /\ faults < MaxFaults
    /\ pc[k] \in {"wait_cmd", "wait_final"}
    /\ pc' = [pc EXCEPT ![k] = "failed"]
    /\ faults' = faults + 1
    /\ UNCHANGED <<conf, tools, sched, calls, mainv, torque, commanded, response, profile,
                   current_angle, t, i, target_velocity, h_i, cmds>>

\* ---------------------------------------------------------------- move_hands

HandCommands(hand_ids, position) ==
    [n \in DOMAIN hand_ids |->
        [actuator_id |-> hand_ids[n],
         position |-> IF position = R(1) THEN R(100) ELSE R(0),
         velocity |-> R(0)]]

\* await kos.actuator.command_actuators(commands) is issued
HandDispatch(k) ==
    LET batch == HandCommands(task[k].ids, task[k].arg)
    IN /\ cmds' = [cmds EXCEPT ![k] = Append(@, batch)]
       /\ commanded' = [a \in Actuators |->
                          IF \E n \in DOMAIN batch : batch[n].actuator_id = a
                          THEN (CHOOSE c \in Range(batch) : c.actuator_id = a).position
                          ELSE commanded[a]]
       /\ pc' = [pc EXCEPT ![k] = "wait_hand_cmd"]

\* mutant: the position argument is not validated
HandsStartUnchecked(k) ==
    /\ Live(k)
    /\ task[k].kind = "hands"
    /\ pc[k] = "new"
    /\ IF Len(task[k].ids) = 0
       THEN /\ HandDispatch(k)
            /\ UNCHANGED h_i
       ELSE /\ h_i' = [h_i EXCEPT ![k] = 1]
            /\ pc' = [pc EXCEPT ![k] = "wait_configure"]
            /\ UNCHANGED <<cmds, commanded>>
    /\ UNCHANGED <<conf, tools, sched, calls, mainv, torque, faults, response, profile,
                   current_angle, t, i, target_velocity>>

\* the coroutine starts: validation, then the first configure call
HandsStart(k) ==
    /\ Live(k)
    /\ task[k].kind = "hands"
    /\ pc[k] = "new"
    /\ IF task[k].arg \notin {R(0), R(1)}
       THEN /\ pc' = [pc EXCEPT ![k] = "failed"]
            /\ UNCHANGED <<h_i, cmds, commanded>>
       ELSE IF Len(task[k].ids) = 0
       THEN /\ HandDispatch(k)
            /\ UNCHANGED h_i
       ELSE /\ h_i' = [h_i EXCEPT ![k] = 1]
            /\ pc' = [pc EXCEPT ![k] = "wait_configure"]
            /\ UNCHANGED <<cmds, commanded>>
    /\ UNCHANGED <<conf, tools, sched, calls, mainv, torque, faults, response, profile,
                   current_angle, t, i, target_velocity>>

\* mutant: the command batch is dispatched when the first configure call returns
HandConfigureReturnFirst(k) ==
    /\ Live(k)
    /\ pc[k] = "wait_configure"
    /\ torque' = [torque EXCEPT ![task[k].ids[h_i[k]]] = "enabled"]
    /\ HandDispatch(k)
    /\ UNCHANGED h_i
    /\ UNCHANGED <<conf, tools, next_tick, anchor, late, calls, mainv, faults, response, profile,
                   current_angle, t, i, target_velocity>>
    /\ \E l \in latency : clock' = [clock EXCEPT ![k] = RAdd(@, l)]

\* a configure call of the loop returns: next id, or the command batch
HandConfigureReturn(k) ==
    /\ Live(k)
    /\ pc[k] = "wait_configure"
    /\ torque' = [torque EXCEPT ![task[k].ids[h_i[k]]] = "enabled"]
    /\ IF h_i[k] < Len(task[k].ids)
       THEN /\ h_i' = [h_i EXCEPT ![k] = @ + 1]
            /\ UNCHANGED <<pc, cmds, commanded>>
       ELSE /\ HandDispatch(k)
            /\ UNCHANGED h_i
    /\ UNCHANGED <<conf, tools, next_tick, anchor, late, calls, mainv, faults, response, profile,
                   current_angle, t, i, target_velocity>>
    /\ \E l \in latency : clock' = [clock EXCEPT ![k] = RAdd(@, l)]

\* the command batch returns
HandCommandReturn(k) ==
    /\ Live(k)
    /\ pc[k] = "wait_hand_cmd"
    /\ pc' = [pc EXCEPT ![k] = "done"]
    /\ UNCHANGED <<conf, tools, next_tick, anchor, late, queries, mainv, torque, commanded, faults, response, profile,
                   current_angle, t, i, target_velocity, h_i, cmds>>
    /\ returned' = [returned EXCEPT ![k] = @ + 1]
    /\ \E l \in latency : clock' = [clock EXCEPT ![k] = RAdd(@, l)]

\* a remote call of move_hands raises
HandFail(k) ==
    /\ Live(k)
    /\ faults < MaxFaults
    /\ pc[k] \in {"wait_configure", "wait_hand_cmd"}
    /\ pc' = [pc EXCEPT ![k] = "failed"]
    /\ faults' = faults + 1
    /\ UNCHANGED <<conf, tools, sched, calls, mainv, torque, commanded, response, profile,
                   current_angle, t, i, target_velocity, h_i, cmds>>

\* ------------------------------------------- boxing_stance / wave_sequence

Finished(k) == pc[k] \in {"done", "failed", "cancelled"}

\* mutant: the gather returns at the first result
GatherFirstDone == \E k \in Tasks : task[k].gather = gather /\ pc[k] = "done"

\* mutant: the gather waits for every coroutine of the script, those of the
\* later composite move included
GatherAllDone == \A k \in Tasks : pc[k] = "done"

\* asyncio.gather of the current composite move has every result
GatherComplete == \A k \in Tasks : task[k].gather = gather => pc[k] = "done"

\* what is left of the coroutines when the program unwinds
Unwound == [k \in Tasks |-> IF Finished(k) \/ pc[k] = "new" THEN pc[k] ELSE "cancelled"]

\* a configure call of the main loop returns: next actuator, or the first gather
ConfigureReturn ==
    /\ main = "wait_configure"
    /\ torque' = [torque EXCEPT ![arm_ids(script)[cfg_i]] = "enabled"]
    /\ IF cfg_i < Len(arm_ids(script))
       THEN /\ cfg_i' = cfg_i + 1
            /\ UNCHANGED <<main, gather>>
       ELSE /\ main' = "gather"
            /\ gather' = 1
            /\ UNCHANGED cfg_i
    /\ UNCHANGED <<conf, tools, sched, calls, outcome, commanded, faults, pc, response, profile,
                   current_angle, t, i, target_velocity, h_i, cmds>>

\* a configure call of the main loop raises: nothing catches it, the program ends
ConfigureFail ==
    /\ main = "wait_configure"
    /\ faults < MaxFaults
    /\ main' = "exited"
    /\ outcome' = "error"
    /\ faults' = faults + 1
    /\ UNCHANGED <<conf, tools, sched, calls, gather, cfg_i, torque, commanded, pc, response, profile,
                   current_angle, t, i, target_velocity, h_i, cmds>>

\* await asyncio.gather(...) returns: the hold, or the end of the script
GatherReturn ==
    /\ main = "gather"
    /\ GatherComplete
    /\ IF gather < LastGather(script)
       THEN /\ main' = "hold"
            /\ UNCHANGED outcome
       ELSE /\ main' = "exited"
            /\ outcome' = "normal"
    /\ UNCHANGED <<conf, tools, sched, calls, gather, cfg_i, torque, commanded, faults, pc, response,
                   profile, current_angle, t, i, target_velocity, h_i, cmds>>

\* mutant: the exception of a constituent is swallowed and the script goes on
\* to the hold
GatherRaiseSwallowed ==
    /\ main = "gather"
    /\ \E k \in Tasks : task[k].gather = gather /\ pc[k] = "failed"
    /\ gather < LastGather(script)
    /\ main' = "hold"
    /\ UNCHANGED <<conf, tools, sched, calls, gather, cfg_i, outcome, torque, commanded, faults,
                   pc, response, profile, current_angle, t, i, target_velocity, h_i,
                   cmds>>

\* await asyncio.gather(...) raises the first exception of a constituent; the
\* program unwinds and asyncio.run cancels what is left
GatherRaise ==
    /\ main = "gather"
    /\ \E k \in Tasks : task[k].gather = gather /\ pc[k] = "failed"
    /\ main' = "exited"
    /\ outcome' = "error"
    /\ pc' = Unwound
    /\ UNCHANGED <<conf, tools, sched, calls, gather, cfg_i, torque, commanded, faults, response,
                   profile, current_angle, t, i, target_velocity, h_i, cmds>>

\* await asyncio.sleep(...) between the composite moves returns
HoldDone ==
    /\ main = "hold"
    /\ main' = "gather"
    /\ gather' = gather + 1
    /\ UNCHANGED <<conf, tools, sched, calls, cfg_i, outcome, torque, commanded, faults, pc, response,
                   profile, current_angle, t, i, target_velocity, h_i, cmds>>

\* operator abort / task cancellation: CancelledError unwinds main and the
\* constituents of the gather; no handler or finally clause runs
Cancel ==
    /\ main # "exited"
    /\ main' = "exited"
    /\ outcome' = "cancelled"
    /\ pc' = Unwound
    /\ UNCHANGED <<conf, tools, sched, calls, gather, cfg_i, torque, commanded, faults, response,
                   profile, current_angle, t, i, target_velocity, h_i, cmds>>

\* ----------------------------------------------------------- specifications

InitLocals ==
    /\ pc = [k \in Tasks |-> "new"]
    /\ response = [k \in Tasks |-> NoResponse]
    /\ profile = [k \in Tasks |-> NoProfile]
    /\ current_angle = [k \in Tasks |->
                          IF task[k].kind = "joint" THEN task[k].current_angle
                          ELSE R(0)]
    /\ t = [k \in Tasks |-> R(0)]
    /\ i = [k \in Tasks |-> 0]
    /\ target_velocity = [k \in Tasks |-> R(0)]
    /\ h_i = [k \in Tasks |-> 0]
    /\ cmds = [k \in Tasks |-> <<>>]
    /\ clock = [k \in Tasks |-> R(0)]
    /\ next_tick = [k \in Tasks |-> R(0)]
    /\ anchor = [k \in Tasks |-> R(0)]
    /\ late = [k \in Tasks |-> FALSE]
    /\ queries = [k \in Tasks |-> 0]
    /\ returned = [k \in Tasks |-> 0]
    /\ torque = [a \in Actuators |-> "unset"]
    /\ commanded = [a \in Actuators |-> R(0)]
    /\ faults = 0
    /\ outcome = "running"
    /\ attempted = <<>>
    /\ successful = 0
    /\ failed = 0
    /\ printed = {}
    /\ elapsed = 0

\* a demo script after its first configure call was issued
Init ==
    /\ script \in {"boxing", "wave"}
    /\ lim = BoxingLimits
    /\ latency = ScriptLatency(script, lim.dt)
    /\ task = Moves(script)
    /\ args = NoArgs
    /\ main = "wait_configure"
    /\ gather = 0
    /\ cfg_i = 1
    /\ InitLocals

Next ==
    \/ \E k \in Tasks : QueryState(k)
    \/ \E k \in Tasks : StateReturn(k)
    \/ \E k \in Tasks : CommandReturnSleep(k)
    \/ \E k \in Tasks : CommandReturnOverrun(k)
    \/ \E k \in Tasks : Wake(k)
    \/ \E k \in Tasks : FinalReturn(k)
    \/ \E k \in Tasks : HandsStart(k)
    \/ \E k \in Tasks : HandConfigureReturn(k)
    \/ \E k \in Tasks : HandCommandReturn(k)
    \/ \E k \in Tasks : StateFail(k)
    \/ \E k \in Tasks : CommandFail(k)
    \/ \E k \in Tasks : HandFail(k)
    \/ ConfigureReturn
    \/ ConfigureFail
    \/ GatherReturn
    \/ GatherRaise
    \/ HoldDone
    \/ Cancel

Spec == Init /\ [][Next]_vars

\* one coroutine (move_to_target or move_hands) awaited alone, every remote call
\* succeeding, from sampled inputs; a current_angle argument other than 0.0 is
\* tried at the bounded rates
SingleTasks ==
    {[kind |-> "joint", ids |-> <<24>>, current_angle |-> c, arg |-> a, gather |-> 1] :
        c \in CallerAngles, a \in Angles}
        \cup {Hands(boxing_right_hand_ids, p, 1) : p \in 0..2}

InitSingle ==
    /\ script = "single"
    /\ lim \in TrajLimits
    /\ \E tk \in SingleTasks :
          LET angle == IF tk.kind = "joint" THEN tk.current_angle ELSE R(0)
          IN /\ task = <<tk>>
             /\ angle # R(0) => lim # ScriptLimits
             /\ latency = SingleLatency(lim, angle)
    /\ args = NoArgs
    /\ main = "gather"
    /\ gather = 1
    /\ cfg_i = 0
    /\ InitLocals

NextSingle ==
    \/ \E k \in Tasks : QueryState(k)
    \/ \E k \in Tasks : StateReturn(k)
    \/ \E k \in Tasks : CommandReturnSleep(k)
    \/ \E k \in Tasks : CommandReturnOverrun(k)
    \/ \E k \in Tasks : Wake(k)
    \/ \E k \in Tasks : FinalReturn(k)
    \/ \E k \in Tasks : HandsStart(k)
    \/ \E k \in Tasks : HandConfigureReturn(k)
    \/ \E k \in Tasks : HandCommandReturn(k)
    \/ GatherReturn
    \/ GatherRaise

SpecSingle == InitSingle /\ [][NextSingle]_vars

\* a demo script whose remote calls all return and which nobody interrupts; the
\* event loop always runs some coroutine that can go on
NextFair ==
    \/ \E k \in Tasks : QueryState(k)
    \/ \E k \in Tasks : StateReturn(k)
    \/ \E k \in Tasks : CommandReturnSleep(k)
    \/ \E k \in Tasks : CommandReturnOverrun(k)
    \/ \E k \in Tasks : Wake(k)
    \/ \E k \in Tasks : FinalReturn(k)
    \/ \E k \in Tasks : HandsStart(k)
    \/ \E k \in Tasks : HandConfigureReturn(k)
    \/ \E k \in Tasks : HandCommandReturn(k)
    \/ ConfigureReturn
    \/ GatherReturn
    \/ HoldDone

\* the steps of the script's main coroutine
MainStep == ConfigureReturn \/ GatherReturn \/ HoldDone

\* a coroutine handed to the gather in progress starts
Start == \E k \in Tasks : QueryState(k) \/ HandsStart(k)

\* the positions at which a coroutine is suspended in an await (a remote call
\* or asyncio.sleep)
Awaiting ==
    {"wait_state", "wait_cmd", "sleep", "wait_final", "wait_configure", "wait_hand_cmd"}

\* some await of a running coroutine is outstanding: the step that returns it
\* is enabled
AwaitPending == \E k \in Tasks : Live(k) /\ pc[k] \in Awaiting

\* a step in which the await of a coroutine returns and the coroutine goes on
AwaitReturns ==
    \E k \in Tasks :
        /\ pc[k] \in Awaiting
        /\ pc'[k] # pc[k] \/ cmds'[k] # cmds[k] \/ h_i'[k] # h_i[k]

\* the event loop runs the main coroutine and starts the coroutines of a gather
\* when they can run, and no await stays outstanding for ever (weak fairness of
\* the returning steps, with their enabling condition written out)
SpecFair ==
    /\ Init /\ [][NextFair]_vars
    /\ WF_vars(MainStep)
    /\ WF_vars(Start)
    /\ ([]<>(~AwaitPending) \/ []<><<AwaitReturns>>_vars)

\* ---------------------------------------------- torque / sin_test / auto_zero
\* The motor scripts walk a list of motors with one remote call each. main is
\* the await the script stands at and cfg_i the index of the motor of that call.

\* entries the bounded runs keep of each script's motor list
NumMotors == 2

\* longest --duration of sin_test, in passes of its control loop
MaxDuration == 4

Prefix(seq, n) == SubSeq(seq, 1, IF n < Len(seq) THEN n ELSE Len(seq))

\* the motors a script walks, bounded
motor_ids(sc) ==
    Prefix(IF sc = "sin_test" THEN LEG_MOTORS
           ELSE IF sc = "torque" THEN actuator_ids
           ELSE MOTORS, NumMotors)

\* a configure_actuator(torque_enabled=enabled) or zero_actuators call for
\* motor id is issued (torque_enabled is not passed to zero_actuators)
Call(kind, id, enabled) ==
    [call |-> kind, id |-> id, torque_enabled |-> enabled, result |-> "pending"]

\* the call outstanding, the last one issued, returns (ok) or raises
Resolved(ok) ==
    [attempted EXCEPT ![Len(attempted)].result = IF ok THEN "ok" ELSE "error"]

\* an interrupt ends the call outstanding, if it is one of these
Abandoned ==
    IF attempted # <<>> /\ attempted[Len(attempted)].result = "pending"
    THEN [attempted EXCEPT ![Len(attempted)].result = "cancelled"]
    ELSE attempted

\* a remote call returns or raises
Outcome(ok) ==
    /\ ok \/ faults < MaxFaults
    /\ faults' = IF ok THEN faults ELSE faults + 1

\* what an accepted configure call leaves on the motor
Accepted(ok, id, enabled) ==
    IF ok THEN [torque EXCEPT ![id] = IF enabled THEN "enabled" ELSE "disabled"]
    ELSE torque

\* the variables of the demo choreographies
demo == <<conf, gather, pc, response, profile, current_angle, t, i, target_velocity,
          h_i, cmds, sched, calls>>

\* ---- torque.py

\* test_client up to the await of the first configure_actuator_torque
TorqueStart ==
    /\ script = "torque"
    /\ main = "start"
    /\ main' = "configure"
    /\ cfg_i' = 1
    /\ attempted' = Append(attempted,
                           Call("configure", motor_ids(script)[1], args.enable_torque))
    /\ UNCHANGED <<demo, args, outcome, torque, commanded, faults, successful, failed,
                   printed, elapsed>>

\* mutant: the exception of the configure call leaves configure_actuator_torque
TorqueConfiguredRaises ==
    /\ script = "torque"
    /\ main = "configure"
    /\ \E ok \in BOOLEAN :
          /\ Outcome(ok)
          /\ successful' = IF ok THEN successful + 1 ELSE successful
          /\ torque' = Accepted(ok, motor_ids(script)[cfg_i], args.enable_torque)
          /\ IF ok /\ cfg_i < Len(motor_ids(script))
             THEN /\ cfg_i' = cfg_i + 1
                  /\ attempted' =
                        Append(Resolved(ok),
                               Call("configure", motor_ids(script)[cfg_i + 1],
                                    args.enable_torque))
                  /\ UNCHANGED <<main, outcome>>
             ELSE /\ main' = "exited"
                  /\ outcome' = IF ok THEN "normal" ELSE "error"
                  /\ attempted' = Resolved(ok)
                  /\ UNCHANGED cfg_i
    /\ UNCHANGED <<demo, args, commanded, failed, printed, elapsed>>

\* the configure call of configure_actuator_torque returns (True) or raises (the
\* error is logged, False); test_client counts the result and goes on to the
\* next actuator, or logs the totals and ends
TorqueConfigured ==
    /\ script = "torque"
    /\ main = "configure"
    /\ \E ok \in BOOLEAN :
          /\ Outcome(ok)
          /\ successful' = IF ok THEN successful + 1 ELSE successful
          /\ failed' = IF ok THEN failed ELSE failed + 1
          /\ torque' = Accepted(ok, motor_ids(script)[cfg_i], args.enable_torque)
          /\ IF cfg_i < Len(motor_ids(script))
             THEN /\ cfg_i' = cfg_i + 1
                  /\ attempted' =
                        Append(Resolved(ok),
                               Call("configure", motor_ids(script)[cfg_i + 1],
                                    args.enable_torque))
                  /\ UNCHANGED <<main, outcome>>
             ELSE /\ main' = "exited"
                  /\ outcome' = "normal"
                  /\ attempted' = Resolved(ok)
                  /\ UNCHANGED cfg_i
    /\ UNCHANGED <<demo, args, commanded, printed, elapsed>>

\* operator interrupt: CancelledError is no Exception, nothing catches it
TorqueInterrupt ==
    /\ script = "torque"
    /\ main = "configure"
    /\ main' = "exited"
    /\ outcome' = "interrupted"
    /\ attempted' = Abandoned
    /\ UNCHANGED <<demo, args, cfg_i, torque, commanded, faults, successful, failed,
                   printed, elapsed>>

\* ---- sin_test.py

\* passes of the control loop in one period of the triangle wave
period == 4

\* --amplitude
amplitude == R(20)

cycle_position(now) == Rat(now % period, period)

\* the commanded position of run_sine_test
triangle_position(cp, amp) ==
    IF RLt(cp, Rat(1, 4)) THEN RMul(RMul(cp, R(4)), amp)
    ELSE IF RLt(cp, Rat(1, 2)) THEN RMul(RMul(RSub(Rat(1, 2), cp), R(4)), amp)
    ELSE IF RLt(cp, Rat(3, 4)) THEN RMul(RMul(RSub(cp, Rat(1, 2)), R(4)), RNeg(amp))
    ELSE RMul(RMul(RSub(cp, R(1)), R(4)), amp)

\* `while time.time() - start_time < duration` at time now, up to the next
\* await: the state query of the pass, or the first call of the closing disable
\* loop; log is what was issued so far
SineLoopHead(now, log) ==
    /\ elapsed' = now
    /\ IF now < args.duration
       THEN /\ main' = "query"
            /\ attempted' = log
            /\ UNCHANGED cfg_i
       ELSE /\ main' = "disable"
            /\ cfg_i' = 1
            /\ attempted' = Append(log, Call("configure", motor_ids(script)[1], FALSE))

\* run_sine_test up to the first call of the opening disable loop
SineStart ==
    /\ script = "sin_test"
    /\ main = "start"
    /\ main' = "pre_disable"
    /\ cfg_i' = 1
    /\ attempted' = Append(attempted, Call("configure", motor_ids(script)[1], FALSE))
    /\ UNCHANGED <<demo, args, outcome, torque, commanded, faults, successful, failed,
                   printed, elapsed>>

\* a call of the opening disable loop returns or raises (printed, the loop goes
\* on): the next motor, or asyncio.sleep(1)
SinePreDisabled ==
    /\ script = "sin_test"
    /\ main = "pre_disable"
    /\ \E ok \in BOOLEAN :
          /\ Outcome(ok)
          /\ torque' = Accepted(ok, motor_ids(script)[cfg_i], FALSE)
          /\ IF cfg_i < Len(motor_ids(script))
             THEN /\ cfg_i' = cfg_i + 1
                  /\ attempted' =
                        Append(Resolved(ok),
                               Call("configure", motor_ids(script)[cfg_i + 1], FALSE))
                  /\ UNCHANGED main
             ELSE /\ main' = "settle"
                  /\ attempted' = Resolved(ok)
                  /\ UNCHANGED cfg_i
    /\ UNCHANGED <<demo, args, outcome, commanded, successful, failed, printed, elapsed>>

\* asyncio.sleep(1) returns: the first call of the configure loop
SineSettled ==
    /\ script = "sin_test"
    /\ main = "settle"
    /\ main' = "configure"
    /\ cfg_i' = 1
    /\ attempted' = Append(attempted, Call("configure", motor_ids(script)[1], TRUE))
    /\ UNCHANGED <<demo, args, outcome, torque, commanded, faults, successful, failed,
                   printed, elapsed>>

\* a call of the configure loop (gains, torque_enabled=True) returns or raises
\* (printed, the loop goes on): the next motor, or start_time and the loop
SineConfigured ==
    /\ script = "sin_test"
    /\ main = "configure"
    /\ \E ok \in BOOLEAN :
          /\ Outcome(ok)
          /\ torque' = Accepted(ok, motor_ids(script)[cfg_i], TRUE)
          /\ IF cfg_i < Len(motor_ids(script))
             THEN /\ cfg_i' = cfg_i + 1
                  /\ attempted' =
                        Append(Resolved(ok),
                               Call("configure", motor_ids(script)[cfg_i + 1], TRUE))
                  /\ UNCHANGED <<main, elapsed>>
             ELSE SineLoopHead(0, Resolved(ok))
    /\ UNCHANGED <<demo, args, outcome, commanded, successful, failed, printed>>

\* the state query at the top of a pass returns, and the position of the pass
\* is sent to every motor; or it raises outside any try and the exception
\* leaves run_sine_test and main, which catches interrupts only
SineQueried ==
    /\ script = "sin_test"
    /\ main = "query"
    /\ \E ok \in BOOLEAN :
          /\ Outcome(ok)
          /\ main' = IF ok THEN "command" ELSE "exited"
          /\ outcome' = IF ok THEN outcome ELSE "error"
    /\ UNCHANGED <<demo, args, cfg_i, torque, commanded, attempted, successful, failed,
                   printed, elapsed>>

\* command_actuators returns, every motor has the position of the pass: the
\* monitoring query; or raises (printed): the sleep of the pass
SineCommanded ==
    /\ script = "sin_test"
    /\ main = "command"
    /\ \E ok \in BOOLEAN :
          /\ Outcome(ok)
          /\ main' = IF ok THEN "read" ELSE "tick_sleep"
          /\ commanded' =
                [a \in Actuators |->
                    IF ok /\ a \in Range(motor_ids(script))
                    THEN triangle_position(cycle_position(elapsed), amplitude)
                    ELSE commanded[a]]
    /\ UNCHANGED <<demo, args, cfg_i, outcome, torque, attempted, successful, failed,
                   printed, elapsed>>

\* the monitoring query returns (status printed) or raises (printed)
SineRead ==
    /\ script = "sin_test"
    /\ main = "read"
    /\ \E ok \in BOOLEAN : Outcome(ok)
    /\ main' = "tick_sleep"
    /\ UNCHANGED <<demo, args, cfg_i, outcome, torque, commanded, attempted, successful,
                   failed, printed, elapsed>>

\* asyncio.sleep(0.01) returns; the pass took one unit of time
SineTick ==
    /\ script = "sin_test"
    /\ main = "tick_sleep"
    /\ SineLoopHead(elapsed + 1, attempted)
    /\ UNCHANGED <<demo, args, outcome, torque, commanded, faults, successful, failed,
                   printed>>

\* a call of the closing disable loop returns or raises (printed, the loop goes
\* on): the next motor, or the end of the script
SineDisabled ==
    /\ script = "sin_test"
    /\ main = "disable"
    /\ \E ok \in BOOLEAN :
          /\ Outcome(ok)
          /\ torque' = Accepted(ok, motor_ids(script)[cfg_i], FALSE)
          /\ IF cfg_i < Len(motor_ids(script))
             THEN /\ cfg_i' = cfg_i + 1
                  /\ attempted' =
                        Append(Resolved(ok),
                               Call("configure", motor_ids(script)[cfg_i + 1], FALSE))
                  /\ UNCHANGED <<main, outcome>>
             ELSE /\ main' = "exited"
                  /\ outcome' = "normal"
                  /\ attempted' = Resolved(ok)
                  /\ UNCHANGED cfg_i
    /\ UNCHANGED <<demo, args, commanded, successful, failed, printed, elapsed>>

\* the operator interrupts run_sine_test once, at any of its awaits: main
\* catches KeyboardInterrupt / CancelledError and issues the first call of its
\* own disable loop
SineInterrupt ==
    /\ script = "sin_test"
    /\ main \in {"pre_disable", "settle", "configure", "query", "command", "read",
                 "tick_sleep", "disable"}
    /\ main' = "cleanup"
    /\ cfg_i' = 1
    /\ attempted' = Append(Abandoned, Call("configure", motor_ids(script)[1], FALSE))
    /\ printed' = printed \cup {"Test interrupted! Disabling motors..."}
    /\ UNCHANGED <<demo, args, outcome, torque, commanded, faults, successful, failed,
                   elapsed>>

\* a call of main's disable loop returns or raises (printed, the loop goes on)
SineCleanedUp ==
    /\ script = "sin_test"
    /\ main = "cleanup"
    /\ \E ok \in BOOLEAN :
          /\ Outcome(ok)
          /\ torque' = Accepted(ok, motor_ids(script)[cfg_i], FALSE)
          /\ IF cfg_i < Len(motor_ids(script))
             THEN /\ cfg_i' = cfg_i + 1
                  /\ attempted' =
                        Append(Resolved(ok),
                               Call("configure", motor_ids(script)[cfg_i + 1], FALSE))
                  /\ UNCHANGED <<main, outcome, printed>>
             ELSE /\ main' = "exited"
                  /\ outcome' = "interrupted"
                  /\ attempted' = Resolved(ok)
                  /\ printed' = printed \cup {"Motors disabled."}
                  /\ UNCHANGED cfg_i
    /\ UNCHANGED <<demo, args, commanded, successful, failed, elapsed>>

\* ---- auto_zero.py

\* main up to the zero_actuators call of the first motor
ZeroStart ==
    /\ script = "auto_zero"
    /\ main = "start"
    /\ main' = "zero"
    /\ cfg_i' = 1
    /\ attempted' = Append(attempted, Call("zero", motor_ids(script)[1], FALSE))
    /\ UNCHANGED <<demo, args, outcome, torque, commanded, faults, successful, failed,
                   printed, elapsed>>

\* zero_actuators returns or raises (either is printed): asyncio.sleep(0.5)
Zeroed ==
    /\ script = "auto_zero"
    /\ main = "zero"
    /\ \E ok \in BOOLEAN :
          /\ Outcome(ok)
          /\ attempted' = Resolved(ok)
    /\ main' = "pause"
    /\ UNCHANGED <<demo, args, cfg_i, outcome, torque, commanded, successful, failed,
                   printed, elapsed>>

\* asyncio.sleep(0.5) returns: the next motor, or the closing message
ZeroPaused ==
    /\ script = "auto_zero"
    /\ main = "pause"
    /\ IF cfg_i < Len(motor_ids(script))
       THEN /\ main' = "zero"
            /\ cfg_i' = cfg_i + 1
            /\ attempted' =
                  Append(attempted, Call("zero", motor_ids(script)[cfg_i + 1], FALSE))
            /\ UNCHANGED <<outcome, printed>>
       ELSE /\ main' = "exited"
            /\ outcome' = "normal"
            /\ printed' = printed \cup {"All motors zeroed successfully!"}
            /\ UNCHANGED <<cfg_i, attempted>>
    /\ UNCHANGED <<demo, args, torque, commanded, faults, successful, failed, elapsed>>

\* the task is cancelled at an await of the loop: `except asyncio.CancelledError`
\* prints and issues the first call of its disable loop
ZeroInterrupt ==
    /\ script = "auto_zero"
    /\ main \in {"zero", "pause"}
    /\ main' = "cancel_disable"
    /\ cfg_i' = 1
    /\ attempted' = Append(Abandoned, Call("configure", motor_ids(script)[1], FALSE))
    /\ printed' = printed \cup {"Zeroing cancelled"}
    /\ UNCHANGED <<demo, args, outcome, torque, commanded, faults, successful, failed,
                   elapsed>>

\* a call of the handler's disable loop returns: the next motor, or the end; or
\* it raises, with no try around it, and the exception leaves main
ZeroDisabled ==
    /\ script = "auto_zero"
    /\ main = "cancel_disable"
    /\ \E ok \in BOOLEAN :
          /\ Outcome(ok)
          /\ torque' = Accepted(ok, motor_ids(script)[cfg_i], FALSE)
          /\ IF ok /\ cfg_i < Len(motor_ids(script))
             THEN /\ cfg_i' = cfg_i + 1
                  /\ attempted' =
                        Append(Resolved(ok),
                               Call("configure", motor_ids(script)[cfg_i + 1], FALSE))
                  /\ UNCHANGED <<main, outcome>>
             ELSE /\ main' = "exited"
                  /\ outcome' = IF ok THEN "interrupted" ELSE "error"
                  /\ attempted' = Resolved(ok)
                  /\ UNCHANGED cfg_i
    /\ UNCHANGED <<demo, args, commanded, successful, failed, printed, elapsed>>

\* ---- the motor scripts' specification

\* the arguments a script is run with
ScriptArgs(sc) ==
    IF sc = "torque" THEN {[enable_torque |-> b, duration |-> 0] : b \in BOOLEAN}
    ELSE IF sc = "sin_test"
    THEN {[enable_torque |-> FALSE, duration |-> d] : d \in 0..MaxDuration}
    ELSE {NoArgs}

\* a motor script when it starts
InitScripts ==
    /\ script \in {"torque", "sin_test", "auto_zero"}
    /\ args \in ScriptArgs(script)
    /\ lim = BoxingLimits
    /\ latency = {R(0)}
    /\ task = <<>>
    /\ main = "start"
    /\ gather = 0
    /\ cfg_i = 0
    /\ InitLocals

NextScripts ==
    \/ TorqueStart
    \/ TorqueConfigured
    \/ TorqueInterrupt
    \/ SineStart
    \/ SinePreDisabled
    \/ SineSettled
    \/ SineConfigured
    \/ SineQueried
    \/ SineCommanded
    \/ SineRead
    \/ SineTick
    \/ SineDisabled
    \/ SineInterrupt
    \/ SineCleanedUp
    \/ ZeroStart
    \/ Zeroed
    \/ ZeroPaused
    \/ ZeroInterrupt
    \/ ZeroDisabled

SpecScripts == InitScripts /\ [][NextScripts]_vars

\* ------------------------------------------------------------------- claims

IsJoint(k) == task[k].kind = "joint"

Sampled(k) == IsJoint(k) /\ response[k].valid

LastCall(k) == cmds[k][Len(cmds[k])]

\* every setpoint of every command call a coroutine issued
Setpoints(k) == UNION {Range(cmds[k][n]) : n \in DOMAIN cmds[k]}

\* C1: when move_to_target has completed, the last command it dispatched for its
\* actuator has position exactly the requested target and velocity exactly 0,
\* whatever position the tick-by-tick integration had reached.
C1_FinalCommandIsTarget ==
    \A k \in Tasks :
        (IsJoint(k) /\ pc[k] = "done") =>
            /\ Len(cmds[k]) >= 1
            /\ LastCall(k) = <<[actuator_id |-> task[k].ids[1],
                                position |-> task[k].arg,
                                velocity |-> R(0)]>>
            /\ commanded[task[k].ids[1]] = task[k].arg

\* a completed run whose integration ended away from the target, from a moving start
C1_Witness ==
    \E k \in Tasks :
        /\ IsJoint(k) /\ pc[k] = "done"
        /\ i[k] > 0
        /\ current_angle[k] # task[k].arg
        /\ response[k].velocity # R(0)

\* C2: after an operator abort or cancellation, every actuator that was
\* configured with torque enabled has had torque disabled before the program exits.
C2_CancelDisablesTorque ==
    (main = "exited" /\ outcome = "cancelled") =>
        \A a \in Actuators : torque[a] # "enabled"

\* the composite move g has returned normally to the script
Completed(g) ==
    \/ gather > g
    \/ gather = g /\ main = "hold"
    \/ gather = g /\ main = "exited" /\ outcome = "normal"

\* C3: a composite move completes only after every constituent joint has
\* dispatched its final target command and every move_hands has dispatched its
\* batch; it never completes while a constituent is pending.
C3_GatherWaitsForAll ==
    \A k \in Tasks :
        Completed(task[k].gather) =>
            /\ pc[k] = "done"
            /\ Len(cmds[k]) >= 1
            /\ IsJoint(k) =>
                  /\ LastCall(k)[1].position = task[k].arg
                  /\ LastCall(k)[1].velocity = R(0)
                  /\ i[k] = profile[k].steps
            /\ ~IsJoint(k) => Len(LastCall(k)) = Len(task[k].ids)

\* a composite move returned whose joints needed different numbers of ticks
C3_Witness ==
    /\ Completed(1)
    /\ \E j, k \in Tasks :
          /\ IsJoint(j) /\ IsJoint(k)
          /\ task[j].gather = 1 /\ task[k].gather = 1
          /\ 0 < i[j] /\ i[j] < i[k]
    /\ \E k \in Tasks : ~IsJoint(k) /\ task[k].gather = 1

\* C4: the velocity target of every tick has magnitude at most V_MAX, for every
\* sampled current velocity.
C4_VelocityWithinVmax ==
    \A k \in Tasks : IsJoint(k) => RLe(RAbs(target_velocity[k]), lim.V_MAX)

\* C5: every setpoint dispatched by move_to_target and by move_hands carries a
\* velocity field >= 0.
C5_VelocityFieldNonNegative ==
    \A k \in Tasks : \A c \in Setpoints(k) : c.velocity[1] >= 0

\* a tick dispatched while travelling in the negative direction with a negative
\* velocity target
C5_Witness ==
    \E k \in Tasks :
        /\ Sampled(k) /\ pc[k] = "wait_cmd"
        /\ profile[k].direction = R(-1)
        /\ target_velocity[k][1] < 0
        /\ LastCall(k)[1].velocity = RNeg(target_velocity[k])

\* C6: at profile time 0 the velocity target equals the sampled velocity whenever
\* the sign of the sampled velocity matches the direction of travel.
C6_InitialVelocityIsSampled ==
    \A k \in Tasks :
        (/\ Sampled(k) /\ pc[k] = "wait_cmd" /\ i[k] = 1
         /\ response[k].velocity[1] * profile[k].direction[1] > 0)
            => target_velocity[k] = response[k].velocity

\* C7: a zero-displacement request has total_time 0, runs no tick and dispatches
\* exactly one command, the unchanged position with velocity 0.
C7_ZeroDisplacement ==
    \A k \in Tasks :
        (Sampled(k) /\ response[k].position = task[k].arg) =>
            /\ profile[k].total_time = R(0)
            /\ profile[k].steps = 0
            /\ i[k] = 0
            /\ pc[k] \in {"wait_final", "done"}
            /\ cmds[k] = << <<[actuator_id |-> task[k].ids[1],
                               position |-> response[k].position,
                               velocity |-> R(0)]>> >>

\* a completed zero-displacement run sampled with a non-zero velocity
C7_Witness ==
    \E k \in Tasks :
        /\ Sampled(k) /\ pc[k] = "done"
        /\ response[k].position = task[k].arg
        /\ response[k].velocity # R(0)

SampledDistance(k) == RAbs(RSub(task[k].arg, response[k].position))

\* V_MAX^2 / acceleration
CruiseDistance == RDiv(RMul(lim.V_MAX, lim.V_MAX), lim.ACCEL)

\* C8: the profile is trapezoidal iff distance >= V_MAX^2 / acceleration, and
\* triangular otherwise, whatever the sampled velocity and the sign of the
\* displacement.
C8_ProfileKind ==
    \A k \in Tasks :
        Sampled(k) =>
            /\ profile[k].trapezoidal <=> RLe(CruiseDistance, SampledDistance(k))
            /\ Profile(task[k].arg, response[k].position, lim).trapezoidal
                  = profile[k].trapezoidal

\* a trapezoidal profile exactly at the boundary distance, from a moving start
C8_Witness ==
    \E k \in Tasks :
        /\ Sampled(k) /\ profile[k].trapezoidal
        /\ SampledDistance(k) = CruiseDistance
        /\ response[k].velocity # R(0)

\* C9: total_time is 2*(V_MAX/a) + (distance - V_MAX^2/a)/V_MAX for a trapezoidal
\* profile and 2*sqrt(distance/a) for a triangular one (the square root to the
\* model's precision), whose peak velocity a*t_peak never exceeds V_MAX.
C9_TotalTime ==
    \A k \in Tasks :
        Sampled(k) =>
            LET tot == profile[k].total_time
                d   == SampledDistance(k)
            IN IF RLe(CruiseDistance, d)
               THEN tot = RAdd(RMul(R(2), RDiv(lim.V_MAX, lim.ACCEL)),
                               RDiv(RSub(d, CruiseDistance), lim.V_MAX))
               ELSE /\ RLe(RMul(RMul(tot, tot), lim.ACCEL), RMul(R(4), d))
                    /\ RLt(RMul(R(4), d),
                           RMul(RMul(RAdd(tot, Rat(2, SqrtPrec)),
                                     RAdd(tot, Rat(2, SqrtPrec))), lim.ACCEL))
                    /\ profile[k].peak_velocity = RMul(lim.ACCEL, RDiv(tot, R(2)))
                    /\ RLe(profile[k].peak_velocity, lim.V_MAX)

\* a triangular profile whose square root is not exact
C9_Witness ==
    \E k \in Tasks :
        /\ Sampled(k) /\ ~profile[k].trapezoidal
        /\ profile[k].steps > 0
        /\ RMul(RMul(profile[k].total_time, profile[k].total_time), lim.ACCEL)
              # RMul(R(4), SampledDistance(k))

\* C10: a failing configure call of the main loop does not halt the script: the
\* remaining actuators are still configured and the composite move is started.
C10_ConfigureFailureDoesNotHalt ==
    (main = "exited" /\ outcome = "error") =>
        /\ cfg_i = Len(arm_ids(script))
        /\ gather >= 1

\* C11: a joint whose state query failed dispatches no command, and its
\* composite move is never reported as completed normally: the failure reaches
\* the caller and the script does not end normally.
C11_StateQueryFailureIsRaised ==
    \A k \in Tasks :
        (IsJoint(k) /\ ~response[k].valid) =>
            /\ cmds[k] = <<>>
            /\ ~Completed(task[k].gather)
            /\ pc[k] = "failed" => outcome # "normal"
            /\ (pc[k] = "failed" /\ main = "exited") =>
                  outcome \in {"error", "cancelled"}

\* the state query of a joint failed and the gather raised it to the script,
\* while another joint of the same composite move had dispatched commands
C11_Witness ==
    \E j, k \in Tasks :
        /\ IsJoint(k) /\ pc[k] = "failed" /\ ~response[k].valid
        /\ main = "exited" /\ outcome = "error"
        /\ IsJoint(j) /\ task[j].gather = task[k].gather /\ Len(cmds[j]) >= 1

\* C12: once a command call of a joint's coroutine has failed, that coroutine
\* dispatches nothing more: the step that fails and every later step leave its
\* dispatched commands as they were, and the coroutine stays failed.
C12_NoCommandAfterDispatchFailure ==
    [][\A k \in Tasks :
          /\ pc'[k] = "failed" => cmds'[k] = cmds[k]
          /\ pc[k] = "failed" => pc'[k] = "failed"]_vars

\* a tick command failed with ticks left to run, and another joint of the same
\* composite move went on dispatching afterwards
C12_Witness ==
    \E j, k \in Tasks :
        /\ Sampled(k) /\ pc[k] = "failed"
        /\ 0 < i[k] /\ i[k] < profile[k].steps
        /\ Len(cmds[k]) = i[k]
        /\ IsJoint(j) /\ task[j].gather = task[k].gather /\ pc[j] = "done"

\* C13: when a joint's trajectory has failed during a composite move and the
\* program has exited on that error, no actuator it configured is left with
\* torque enabled.
C13_TrajectoryFailureDisablesTorque ==
    (/\ main = "exited" /\ outcome = "error"
     /\ \E k \in Tasks : IsJoint(k) /\ pc[k] = "failed")
        => \A a \in Range(arm_ids(script)) : torque[a] # "enabled"

\* C14: a joint's coroutine dispatches one command call at a time and in tick
\* order: a call is dispatched only when every earlier call of the coroutine has
\* returned, a tick command is the next tick of the loop, and the final command
\* comes after all the ticks, whatever the other coroutines do in between.
C14_CommandsInTickOrder ==
    [][\A k \in Tasks :
          IsJoint(k) =>
              /\ returned[k] <= Len(cmds[k])
              /\ Len(cmds[k]) <= returned[k] + 1
              /\ cmds'[k] # cmds[k] =>
                    /\ Len(cmds'[k]) = Len(cmds[k]) + 1
                    /\ SubSeq(cmds'[k], 1, Len(cmds[k])) = cmds[k]
                    /\ returned'[k] = Len(cmds[k])
                    /\ pc'[k] \in {"wait_cmd", "wait_final"}
                    /\ pc'[k] = "wait_cmd" =>
                          /\ i'[k] = Len(cmds'[k])
                          /\ i'[k] <= profile'[k].steps
                    /\ pc'[k] = "wait_final" =>
                          /\ Len(cmds[k]) = profile'[k].steps
                          /\ i'[k] = profile'[k].steps]_vars

\* a joint has dispatched its final command after several ticks while another
\* joint of the same composite move has a tick command outstanding
C14_Witness ==
    \E j, k \in Tasks :
        /\ IsJoint(j) /\ IsJoint(k) /\ task[j].gather = task[k].gather
        /\ pc[k] = "wait_final" /\ profile[k].steps >= 2
        /\ returned[k] = profile[k].steps
        /\ pc[j] = "wait_cmd" /\ returned[j] = Len(cmds[j]) - 1

InGather(g) == {k \in Tasks : task[k].gather = g}

\* when the last coroutine of composite move g finished, from the start of g
GatherTime(g) ==
    LET ends == {clock[k] : k \in InGather(g)}
    IN CHOOSE c \in ends : \A d \in ends : RLe(d, c)

\* floor(total_time / dt) of a joint's profile
TickPeriods(k) == RInt(RDiv(profile[k].total_time, lim.dt))

MaxSet(S) == CHOOSE n \in S : \A m \in S : m <= n

\* the tick periods of the joints of S, one after the other
RECURSIVE SumPeriods(_)
SumPeriods(S) ==
    IF S = {} THEN 0
    ELSE LET k == CHOOSE j \in S : TRUE IN TickPeriods(k) + SumPeriods(S \ {k})

IsSoloPrefix(sent, id, resp, target, p, l) ==
    /\ Len(sent) <= p.steps + 1
    /\ \A n \in DOMAIN sent :
          IF n <= p.steps
          THEN LET v    == get_target_velocity(RMul(R(n - 1), l.dt), p, resp.velocity, l)
                   prev == IF n = 1 THEN resp.position ELSE sent[n - 1][1].position
               IN sent[n] = <<[actuator_id |-> id,
                                position |-> RAdd(prev, RMul(v, l.dt)),
                                velocity |-> RAbs(v)]>>
          ELSE sent[n] = <<[actuator_id |-> id, position |-> target,
                             velocity |-> R(0)]>>

\* sent is every command call of that trajectory
IsSoloRun(sent, id, resp, target, l) ==
    LET p == Profile(resp.position, target, l)
    IN /\ Len(sent) = p.steps + 1
       /\ IsSoloPrefix(sent, id, resp, target, p, l)

\* C16: a trajectory queries the state once, before any command, and takes its
\* start from that sample alone: the profile it solves when the sample arrives is
\* the one of the sampled position, and a completed run dispatched the command
\* sequence determined by sample, target and limits, whatever current_angle its
\* caller passed.
C16_SeededFromSampleOnly ==
    \A k \in Tasks :
        IsJoint(k) =>
            /\ queries[k] <= 1
            /\ pc[k] # "new" => queries[k] = 1
            /\ cmds[k] # <<>> => Sampled(k)
            /\ Len(cmds[k]) = 1 =>
                  profile[k] = Profile(response[k].position, task[k].arg, lim)
            /\ pc[k] = "done" =>
                  IsSoloRun(cmds[k], task[k].ids[1], response[k], task[k].arg, lim)

\* a completed run with ticks whose caller passed a current_angle that is
\* neither the sampled position nor the default
C16_Witness ==
    \E k \in Tasks :
        /\ IsJoint(k) /\ pc[k] = "done" /\ i[k] > 0
        /\ task[k].current_angle # response[k].position
        /\ task[k].current_angle # R(0)
        /\ task[k].current_angle # task[k].arg

\* C17: at every point of a composite move in progress, what a joint's coroutine
\* has dispatched is the beginning of what it would dispatch alone from the same
\* sample (its profile, solved when the sample arrived, is the one of the sample
\* and its own target), and every setpoint of it carries the joint's own
\* actuator id, whatever the other coroutines do, in whatever order, with
\* whatever latency.
C17_JointIndependentOfOthers ==
    \A k \in Tasks :
        (Sampled(k) /\ Live(k)) =>
            /\ Len(cmds[k]) = 1 =>
                  profile[k] = Profile(response[k].position, task[k].arg, lim)
            /\ IsSoloPrefix(cmds[k], task[k].ids[1], response[k], task[k].arg,
                            profile[k], lim)
            /\ \A c \in Setpoints(k) : c.actuator_id = task[k].ids[1]
            /\ \A n \in DOMAIN cmds[k] : Len(cmds[k][n]) = 1

\* two joints of one composite move, each part-way through several ticks, one
\* ahead of the other
C17_Witness ==
    \E j, k \in Tasks :
        /\ Sampled(j) /\ Sampled(k) /\ j # k
        /\ task[j].gather = task[k].gather
        /\ task[j].ids # task[k].ids
        /\ pc[j] = "done" /\ i[j] >= 1
        /\ pc[k] \in {"wait_cmd", "sleep"} /\ i[k] >= 2

\* the sum of the velocity targets of ticks lo..hi of coroutine k
RECURSIVE VelocityRange(_, _, _)
VelocityRange(k, lo, hi) ==
    IF hi < lo THEN R(0)
    ELSE IF lo = hi
    THEN get_target_velocity(RMul(R(lo), lim.dt), profile[k], response[k].velocity, lim)
    ELSE LET mid == (lo + hi) \div 2
         IN RAdd(VelocityRange(k, lo, mid), VelocityRange(k, mid + 1, hi))

\* the sum of the velocity targets of ticks 0..n of coroutine k
VelocitySum(k, n) == VelocityRange(k, 0, n)

\* C18: a trajectory dispatches floor(total_time / dt) tick commands and then one
\* final command and nothing after it. The step that dispatches tick n (from 0)
\* evaluates the velocity law at n * dt and commands the position before it plus
\* dt times that velocity; the step that dispatches the final command comes when
\* floor(total_time / dt) ticks were dispatched, and the last tick had commanded
\* the sampled position plus dt times the sum of all the velocity targets.
C18_TickCountAndPositions ==
    [][\A k \in Tasks :
          (IsJoint(k) /\ cmds'[k] # cmds[k]) =>
              LET n     == Len(cmds[k])
                  ticks == RInt(RDiv(profile'[k].total_time, lim.dt))
                  c     == cmds'[k][n + 1][1]
                  prev  == IF n = 0 THEN response'[k].position
                           ELSE cmds[k][n][1].position
              IN /\ pc[k] \notin {"wait_final", "done"}
                 /\ Len(cmds'[k]) = n + 1
                 /\ n <= ticks
                 /\ n < ticks =>
                       /\ pc'[k] = "wait_cmd"
                       /\ t'[k] = RMul(R(n), lim.dt)
                       /\ target_velocity'[k] =
                             get_target_velocity(RMul(R(n), lim.dt), profile'[k],
                                                 response'[k].velocity, lim)
                       /\ c.position = RAdd(prev, RMul(lim.dt, target_velocity'[k]))
                       /\ c.velocity = RAbs(target_velocity'[k])
                 /\ n = ticks =>
                       /\ pc'[k] = "wait_final"
                       /\ i'[k] = ticks
                       /\ c.position = task[k].arg /\ c.velocity = R(0)
                       /\ prev = RAdd(response'[k].position,
                                      RMul(lim.dt, VelocitySum(k, ticks - 1)))]_vars

\* a completed trajectory of several ticks from a moving start whose calls did
\* not all return on time
C18_Witness ==
    \E k \in Tasks :
        /\ IsJoint(k) /\ pc[k] = "done"
        /\ Len(cmds[k]) = RInt(RDiv(profile[k].total_time, lim.dt)) + 1
        /\ Len(cmds[k]) >= 4
        /\ response[k].velocity # R(0)
        /\ RLt(RAdd(anchor[k], RMul(R(i[k]), lim.dt)), clock[k])

\* C19: the deadline a coroutine sleeps to is the anchor plus dt for each tick
\* command that has returned, whatever the calls took. A tick command that
\* returns before the deadline is followed by a sleep that ends at the deadline;
\* one that returns at or after it is followed at once by the next command. So
\* a tick that follows a sleep is dispatched at anchor + n * dt even when
\* earlier ticks were late.
C19_DeadlinesFromAnchor ==
    [][\A k \in Tasks :
          (IsJoint(k) /\ response'[k].valid) =>
              LET n == IF returned'[k] < profile'[k].steps THEN returned'[k]
                       ELSE profile'[k].steps
              IN /\ next_tick'[k] = RAdd(anchor'[k], RMul(R(n), lim.dt))
                 /\ anchor'[k] = IF response[k].valid THEN anchor[k] ELSE clock'[k]
                 /\ (pc[k] = "wait_cmd" /\ returned'[k] # returned[k]) =>
                       IF RLt(clock'[k], next_tick'[k])
                       THEN pc'[k] = "sleep" /\ cmds'[k] = cmds[k]
                       ELSE pc'[k] \in {"wait_cmd", "wait_final"}
                            /\ Len(cmds'[k]) = Len(cmds[k]) + 1
                 /\ (pc[k] = "sleep" /\ pc'[k] \in {"wait_cmd", "wait_final"}) =>
                       /\ clock'[k] = next_tick[k]
                       /\ clock'[k] = RAdd(anchor[k], RMul(R(Len(cmds[k])), lim.dt))
                       /\ Len(cmds'[k]) = Len(cmds[k]) + 1]_vars

\* a tick dispatched exactly on its original deadline although an earlier
\* tick command of the run had returned after its deadline
C19_Witness ==
    \E k \in Tasks :
        /\ IsJoint(k) /\ pc[k] = "wait_cmd"
        /\ late[k]
        /\ i[k] >= 3
        /\ anchor[k] # R(0)
        /\ clock[k] = RAdd(anchor[k], RMul(R(i[k] - 1), lim.dt))

\* where a trajectory stands: Idle until it has its sample, then the branch of
\* the velocity law its latest tick took, Settled once the loop is left
PhaseOf(at, valid, n, p) ==
    IF at \in {"wait_final", "done"} THEN "Settled"
    ELSE IF ~valid \/ n = 0 THEN "Idle"
    ELSE phase(RMul(R(n - 1), lim.dt), p)

Phase(k) == PhaseOf(pc[k], response[k].valid, i[k], profile[k])

PhaseRank(ph) ==
    CASE ph = "Idle" -> 0
      [] ph = "Accelerating" -> 1
      [] ph = "Cruising" -> 2
      [] ph = "Decelerating" -> 3
      [] ph = "Settled" -> 4

\* C20: while a joint's coroutine runs, its phase never moves back in the order
\* Idle, Accelerating, Cruising, Decelerating, Settled, and Cruising is a phase
\* of trapezoidal profiles only. The step that makes it Settled dispatches the
\* final command (target, velocity 0); a Settled, failed or cancelled coroutine
\* dispatches nothing more, whatever the other joints still do.
C20_PhasesInOrder ==
    [][\A k \in Tasks :
          IsJoint(k) =>
              LET now  == Phase(k)
                  next == PhaseOf(pc'[k], response'[k].valid, i'[k], profile'[k])
              IN /\ pc'[k] \notin {"failed", "cancelled"} =>
                       /\ PhaseRank(now) <= PhaseRank(next)
                       /\ next = "Cruising" => profile'[k].trapezoidal
                       /\ next # now => cmds'[k] # cmds[k]
                 /\ (now # "Settled" /\ next = "Settled") =>
                       cmds'[k] = Append(cmds[k],
                                         <<[actuator_id |-> task[k].ids[1],
                                            position |-> task[k].arg,
                                            velocity |-> R(0)]>>)
                 /\ (now = "Settled" \/ pc[k] \in {"failed", "cancelled"}) =>
                       cmds'[k] = cmds[k]]_vars

\* a joint is Settled after ticks of its own while another joint of the same
\* composite move is Cruising with a tick command outstanding
C20_Witness ==
    \E j, k \in Tasks :
        /\ IsJoint(j) /\ IsJoint(k) /\ task[j].gather = task[k].gather
        /\ main = "gather" /\ gather = task[k].gather
        /\ Phase(k) = "Settled" /\ pc[k] = "done" /\ i[k] >= 2
        /\ Phase(j) = "Cruising" /\ pc[j] = "wait_cmd"

\* C21: the velocity target of a tick never has the sign opposite to the
\* direction of travel, and the position a tick commands is never further back
\* along the direction of travel than the position before it, for every sampled
\* velocity.
C21_VelocityNeverReversed ==
    \A k \in Tasks :
        (Sampled(k) /\ i[k] >= 1 /\ Len(cmds[k]) >= i[k]) =>
            LET prev == IF i[k] = 1 THEN response[k].position
                        ELSE cmds[k][i[k] - 1][1].position
                step == RSub(cmds[k][i[k]][1].position, prev)
            IN /\ RMul(profile[k].direction, target_velocity[k])[1] >= 0
               /\ RMul(profile[k].direction, step)[1] >= 0

\* C22: move_hands dispatches one command call and no second one. The step that
\* dispatches it is the return of the configure call of the last id of hand_ids,
\* when a configure call has returned for every id; the call holds one setpoint
\* per id, in list order, all at 100 when position is 1 and at 0 when position
\* is 0, with velocity 0.
C22_HandBatchAfterConfigure ==
    [][\A k \in Tasks :
          ~IsJoint(k) =>
              /\ pc'[k] = "done" => Len(cmds'[k]) = 1
              /\ cmds'[k] # cmds[k] =>
                    /\ cmds[k] = <<>>
                    /\ Len(cmds'[k]) = 1
                    /\ Len(cmds'[k][1]) = Len(task[k].ids)
                    /\ task[k].arg \in {R(0), R(1)}
                    /\ \A n \in DOMAIN task[k].ids :
                          cmds'[k][1][n] =
                              [actuator_id |-> task[k].ids[n],
                               position |-> IF task[k].arg = R(1) THEN R(100) ELSE R(0),
                               velocity |-> R(0)]
                    /\ pc[k] = "wait_configure"
                    /\ h_i[k] = Len(task[k].ids)
                    /\ \A id \in Range(task[k].ids) : torque'[id] = "enabled"]_vars

\* a move_hands of several ids completed with position 1 after one with
\* position 0 on the same ids
C22_Witness ==
    \E j, k \in Tasks :
        /\ ~IsJoint(j) /\ ~IsJoint(k)
        /\ task[j].ids = task[k].ids /\ Len(task[k].ids) >= 2
        /\ task[j].arg = R(0) /\ pc[j] = "done"
        /\ task[k].arg = R(1) /\ pc[k] = "done"
        /\ cmds[k][1][2].position = R(100)
        /\ cmds[j][1][2].position = R(0)

\* C23: move_hands called with a position other than 0 or 1 raises before any
\* remote call: it issues no configure call and no command call, no actuator of
\* hand_ids is configured or moved, and the caller ends on the error.
C23_InvalidPositionRaisesFirst ==
    \A k \in Tasks :
        (~IsJoint(k) /\ task[k].arg \notin {R(0), R(1)}) =>
            /\ pc[k] \in {"new", "failed"}
            /\ h_i[k] = 0
            /\ cmds[k] = <<>>
            /\ returned[k] = 0
            /\ \A id \in Range(task[k].ids) :
                  torque[id] = "unset" /\ commanded[id] = R(0)
            /\ main = "exited" => outcome = "error"

\* move_hands was called with position 2 and its caller ended on the ValueError
C23_Witness ==
    \E k \in Tasks :
        /\ ~IsJoint(k) /\ task[k].arg = R(2)
        /\ pc[k] = "failed"
        /\ main = "exited" /\ outcome = "error"

\* C24: in boxing_stance a coroutine of the return-to-neutral composite move has
\* started (queried, configured or commanded anything) only if every joint of
\* the stance composite move has dispatched its final target command and
\* returned and both hand batches were sent and returned; and when a
\* constituent of the stance composite move has failed, the script never
\* reaches the hold, starts no coroutine of the return-to-neutral composite move
\* and does not end normally.
C24_ReturnOnlyAfterStance ==
    script = "boxing" =>
        /\ \A k \in InGather(2) :
              (pc[k] # "new" \/ cmds[k] # <<>> \/ queries[k] > 0 \/ h_i[k] > 0) =>
                  \A j \in InGather(1) :
                      /\ pc[j] = "done"
                      /\ returned[j] = Len(cmds[j])
                      /\ IsJoint(j) =>
                            LastCall(j) = <<[actuator_id |-> task[j].ids[1],
                                             position |-> task[j].arg,
                                             velocity |-> R(0)]>>
                      /\ ~IsJoint(j) =>
                            /\ Len(cmds[j]) = 1
                            /\ Len(cmds[j][1]) = Len(task[j].ids)
        /\ (\E j \in InGather(1) : pc[j] = "failed") =>
              /\ gather = 1
              /\ main \in {"gather", "exited"}
              /\ outcome # "normal"
              /\ \A k \in InGather(2) :
                    pc[k] = "new" /\ cmds[k] = <<>> /\ queries[k] = 0 /\ h_i[k] = 0

\* a joint of the return-to-neutral move of boxing_stance is part-way through
\* its ticks while a hand coroutine of that move has not yet sent its batch
C24_Witness ==
    /\ script = "boxing"
    /\ \E j, k \in InGather(2) :
          /\ IsJoint(k) /\ pc[k] = "wait_cmd" /\ i[k] >= 2
          /\ ~IsJoint(j) /\ pc[j] = "wait_configure"

\* the coroutines of composite move g that command actuator a, in the order
\* they are handed to the gather
Targeting(a, g) == {k \in InGather(g) : a \in Range(task[k].ids)}

\* the position the last of them commands last
ListedTarget(a, g) ==
    LET k == CHOOSE j \in Targeting(a, g) : \A m \in Targeting(a, g) : m <= j
    IN IF IsJoint(k) THEN task[k].arg
       ELSE IF task[k].arg = R(1) THEN R(100) ELSE R(0)

\* C28: when the first composite move of wave_sequence has completed, the last
\* position commanded to each actuator it targets is one fixed value whatever the
\* interleaving was: that of the coroutine listed last for the actuator (0 for
\* actuator 55, from move_hands([55], 0)).
C28_LastPositionSameInEveryInterleaving ==
    (script = "wave" /\ Completed(1) /\ gather = 1) =>
        \A a \in Actuators :
            Targeting(a, 1) # {} => commanded[a] = ListedTarget(a, 1)

\* the same with the other order of the two batches: actuator 55 ends at 100,
\* from move_hands(left_hand_ids, 1)
WaveEndsAtLeftHandBatch ==
    (script = "wave" /\ Completed(1) /\ gather = 1) => commanded[55] = R(100)

\* the position the last tick of the loop commanded
LastTickPosition(k) == cmds[k][profile[k].steps][1].position

\* C29: when the sampled velocity is zero and the loop ran, the position its
\* last tick commanded is within V_MAX * dt of the target, for trapezoidal and
\* triangular profiles in both directions of travel.
C29_LastTickNearTarget ==
    \A k \in Tasks :
        (/\ Sampled(k) /\ response[k].velocity = R(0)
         /\ profile[k].steps >= 1 /\ Len(cmds[k]) >= profile[k].steps) =>
            RLe(RAbs(RSub(task[k].arg, LastTickPosition(k))),
                RMul(lim.V_MAX, lim.dt))

\* a completed trapezoidal run of several ticks in the negative direction from
\* rest whose last tick stopped short of the target
C29_Witness ==
    \E k \in Tasks :
        /\ Sampled(k) /\ response[k].velocity = R(0) /\ pc[k] = "done"
        /\ profile[k].trapezoidal /\ profile[k].direction = R(-1)
        /\ profile[k].steps >= 3
        /\ RLt(task[k].arg, LastTickPosition(k))

\* C27: when every remote call returns and the event loop keeps running what can
\* run, the script ends normally with every coroutine of both composite moves
\* done, every joint's last command being its final target command; this holds
\* for wave_sequence too, whose tick commands all return at their deadline so
\* that no joint's loop ever sleeps.
C27_EveryJointFinishes ==
    <>[](/\ main = "exited" /\ outcome = "normal"
         /\ \A k \in Tasks :
               /\ pc[k] = "done"
               /\ IsJoint(k) =>
                     /\ i[k] = profile[k].steps
                     /\ LastCall(k) = <<[actuator_id |-> task[k].ids[1],
                                         position |-> task[k].arg,
                                         velocity |-> R(0)]>>)

\* wave_sequence ended normally after joints ran several ticks each without
\* ever sleeping
C27_Witness ==
    /\ script = "wave" /\ main = "exited" /\ outcome = "normal"
    /\ latency = {lim.dt}
    /\ \E j, k \in InGather(1) :
          /\ j # k /\ IsJoint(j) /\ IsJoint(k)
          /\ i[j] >= 3 /\ i[k] >= 3
          /\ clock[k] = RAdd(anchor[k], RMul(R(i[k] + 1), lim.dt))

\* ---- torque.py, sin_test.py, auto_zero.py

\* the entries of the log of calls with this result
WithResult(r) == {n \in 1..Len(attempted) : attempted[n].result = r}

\* C26: in the torque script a failing configure call never leaves
\* configure_actuator_torque as an exception: it is counted as failed and a
\* returning one as successful; test_client attempts the actuators of
\* actuator_ids once each in list order whatever failed before, and at the end
\* successful + failed is the number of actuators
C26_TorqueLogAndContinue ==
    script = "torque" =>
        /\ outcome # "error"
        /\ successful = Cardinality(WithResult("ok"))
        /\ failed = Cardinality(WithResult("error"))
        /\ Len(attempted) <= Len(motor_ids(script))
        /\ \A n \in 1..Len(attempted) :
              attempted[n] = [call |-> "configure", id |-> motor_ids(script)[n],
                              torque_enabled |-> args.enable_torque,
                              result |-> attempted[n].result]
        /\ main = "exited" /\ outcome = "normal" =>
              /\ Len(attempted) = Len(motor_ids(script))
              /\ successful + failed = Len(motor_ids(script))

\* test_client ended after the first actuator failed and a later one succeeded
C26_Witness ==
    /\ script = "torque"
    /\ main = "exited"
    /\ outcome = "normal"
    /\ attempted[1].result = "error"
    /\ failed >= 1
    /\ successful >= 1

\* the last enabling call of the log, 0 if none
LastEnable ==
    IF \E n \in 1..Len(attempted) : attempted[n].torque_enabled
    THEN CHOOSE n \in 1..Len(attempted) :
            /\ attempted[n].torque_enabled
            /\ \A m \in (n + 1)..Len(attempted) : ~attempted[m].torque_enabled
    ELSE 0

\* C25: whenever sin_test has ended after the enabling loop, on whatever path,
\* a configure call with torque disabled was issued after it for every leg motor
C25_EveryExitDisablesEveryMotor ==
    script = "sin_test" /\ main = "exited" /\ LastEnable > 0 =>
        \A id \in Range(motor_ids(script)) :
            \E n \in (LastEnable + 1)..Len(attempted) :
                /\ attempted[n].call = "configure"
                /\ attempted[n].id = id
                /\ ~attempted[n].torque_enabled

\* C30: auto_zero issues the zeroing calls in list order whatever failed
\* before, and "All motors zeroed successfully!" is printed only when the
\* zeroing call of every motor succeeded
C30_SuccessMessageOnlyOnSuccess ==
    script = "auto_zero" =>
        /\ \A n \in 1..Len(attempted) :
              attempted[n].call = "zero" => attempted[n].id = motor_ids(script)[n]
        /\ "All motors zeroed successfully!" \in printed =>
              /\ Len(attempted) = Len(motor_ids(script))
              /\ \A n \in 1..Len(attempted) :
                    attempted[n].call = "zero" /\ attempted[n].result = "ok"

====
